---- MODULE Spec2Model ----
(***************************************************************************)
(* State-machine model of the analyst council: ExpertCouncil               *)
(* (src/expert_council.py), BaseAgent (src/agents.py) and the two callers  *)
(* that gate the chairman synthesis (src/app.py run_async_analysis and     *)
(* src/expert_council.py run_interactive_council_analysis).                *)
(*                                                                         *)
(* asyncio is cooperative: a coroutine only yields at an await that really *)
(* suspends, which here is the provider request inside analyze_stock and   *)
(* inside get_chairman_verdict, and the gather of analyze_stock_parallel.  *)
(* Every action below is one such uninterrupted run of code.               *)
(***************************************************************************)
EXTENDS Integers, Sequences, FiniteSets, TLC

\* Number of agents ExpertCouncil.__init__ puts into the agents table.
NumExperts == 5

\* Number of agents of the table that SpecReuse follows, where two
\* analyze_stock_parallel calls share one council (agents are separate
\* objects: what one call does to an agent only meets the other call's task
\* for the same agent).
ReuseExperts == 2

\* Number of agents of the table that FairSpec follows: as many as a
\* chairman synthesis needs.
LiveExperts == 3

\* Largest number of producers, largest threshold and number of
\* evaluations that SpecGate follows the gate on.
GateMaxTotal == 5

GateMaxThreshold == 6

GateMaxEvaluations == 2

\* Number of save_analysis_history calls that SpecStore follows.
NumSavers == 3

\* Minimum number of successful expert reports for a chairman synthesis.
QuorumThreshold == 3

\* The two calls that may share one council (SpecReuse); Spec uses call 1.
Calls == {1, 2}

Claude == "claude-sonnet-4-20250514"
Gpt5 == "gpt-5"

\* Python None for a credential (os.getenv of an unset variable).
NoKey == "None"

\* A key that a dict does not hold, or a value that is None.
Absent == "absent"

VARIABLES
    entry,          \* which caller drives the council
    env,            \* OPENAI_API_KEY / ANTHROPIC_API_KEY of the process
    council,        \* ExpertCouncil.openai_key / .anthropic_key
    fallback_map,   \* ExpertCouncil.fallback_map
    agents,         \* ExpertCouncil.agents: the shared agent objects
    call,           \* per analyze_stock_parallel call: its position
    task,           \* per call and agent: the _analyze_with_agent task
    report,         \* per call: the dict analyze_stock_parallel returned
    gate,           \* the caller's quorum decision for call 1
    chairman,       \* get_chairman_verdict of call 1
    caller,         \* position of the caller of call 1
    history,        \* ANALYSIS_HISTORY.md: the entries written to it
    delivery,       \* what the entry function handed to its own caller
    saver,          \* per save_analysis_history call of SpecStore: its position
    gate_eval       \* SpecGate: the counts given to the gate and its branches

vars == <<entry, env, council, fallback_map, agents, call, task, report,
          gate, chairman, caller, history, delivery, saver, gate_eval>>

----------------------------------------------------------------------------
(* Names *)

\* Keys of ExpertCouncil.agents in insertion order.
AgentNames == <<"warren_buffett", "ray_dalio", "peter_lynch",
                "james_simons", "mark_minervini">>

\* BaseAgent.expert_name of each agent class (ASCII renderings of the
\* display names), in the order of the agents table.
ExpertNames == <<"Warren Buffett (value)", "Ray Dalio (macro)",
                 "Peter Lynch (growth)", "James Simons (quant)",
                 "Mark Minervini (momentum)">>

\* expert_name the join gives an entry built from an escaped exception.
UnknownExpert == "unknown"

Experts == DOMAIN agents

----------------------------------------------------------------------------
(* BaseAgent *)

\* Which service _initialize_client and analyze_stock pick for a model name.
ServiceOf(model) ==
    IF model = Gpt5 THEN "openai"
    ELSE IF model = Claude THEN "anthropic"
    ELSE "openai"

\* The service a credential belongs to.
KeyService(key) ==
    CASE key \in {"env_openai", "sidebar_openai"} -> "openai"
      [] key \in {"env_anthropic", "sidebar_anthropic"} -> "anthropic"
      [] OTHER -> "none"

\* The credential a client constructor ends up with: the one passed, or the
\* environment's when None is passed.
ClientKey(service, api_key) ==
    IF api_key # NoKey THEN api_key
    ELSE IF service = "openai" THEN env.openai
    ELSE env.anthropic

\* Constructing a client.  AsyncOpenAI raises when it has no credential at
\* all; AsyncAnthropic is constructed without one and fails on the request.
NewClient(service, api_key) ==
    LET key == ClientKey(service, api_key)
    IN  IF service = "openai" /\ key = NoKey
        THEN [raised |-> TRUE, client |-> [service |-> "none", api_key |-> NoKey]]
        ELSE [raised |-> FALSE, client |-> [service |-> service, api_key |-> key]]

\* BaseAgent._initialize_client: replaces agent.client, or raises and leaves
\* the old client in place.
initialize_client(ag) ==
    LET made == NewClient(ServiceOf(ag.model), ag.api_key)
    IN  IF made.raised
        THEN [raised |-> TRUE, agent |-> ag]
        ELSE [raised |-> FALSE, agent |-> [ag EXCEPT !.client = made.client]]

\* BaseAgent.__init__ as called from ExpertCouncil.__init__.
NewAgent(i, api_key, model) ==
    initialize_client([expert_name |-> ExpertNames[i],
                       model |-> model,
                       api_key |-> api_key,
                       client |-> [service |-> "none", api_key |-> NoKey]]).agent

\* What one analyze_stock call sends its request with: the model and the
\* client read before the await.
Attempt(ag) ==
    [model |-> ag.model, service |-> ag.client.service, api_key |-> ag.client.api_key]

\* The branch analyze_stock takes for agent.model finds the interface it
\* uses on agent.client (otherwise the attribute lookup raises inside the
\* try and analyze_stock returns an error without awaiting).
CanRequest(ag) == ag.client.service = ServiceOf(ag.model)

\* What a provider can answer to a request: text, an empty payload, or an
\* error; a request without a credential of that service only fails.
ProviderOutcomes(attempt) ==
    IF KeyService(attempt.api_key) = attempt.service
    THEN {"text", "empty", "error"}
    ELSE {"error"}

Result(name, status, model, analysis, message) ==
    [raised |-> FALSE, expert_name |-> name, status |-> status,
     model_used |-> model, analysis |-> analysis,
     error_message |-> message, error |-> Absent]

\* An exception object in place of a result dict.
Raised(message) ==
    [raised |-> TRUE, expert_name |-> Absent, status |-> Absent,
     model_used |-> Absent, analysis |-> Absent,
     error_message |-> Absent, error |-> message]

Pending == Result(Absent, "pending", Absent, Absent, Absent)

\* Variant of ModelUsed: the result is tagged with the model the agent was
\* constructed with instead of the model it currently holds.
ModelUsedConfigured(ag) == Claude

\* The model name analyze_stock writes into its result: agent.model as it
\* is when the result dict is built, after the await.
ModelUsed(ag) == ag.model

\* The analysis text analyze_stock returns for a payload: an empty or blank
\* payload is replaced by a notice.
AnalysisText(outcome) == IF outcome = "empty" THEN "placeholder" ELSE "text"

\* Variant of StatusOf: an empty payload is raised as an error inside the
\* try block, like a failed request.
StatusOfEmptyRaised(outcome) ==
    IF outcome \in {"error", "empty"} THEN "error" ELSE "success"

\* The status analyze_stock returns for a provider outcome.
StatusOf(outcome) == IF outcome = "error" THEN "error" ELSE "success"

\* The dict analyze_stock returns once the provider has answered.
analyze_stock(ag, outcome) ==
    IF StatusOf(outcome) = "error"
    THEN Result(ag.expert_name, "error", ModelUsed(ag), Absent, "provider_error")
    ELSE Result(ag.expert_name, "success", ModelUsed(ag), AnalysisText(outcome), Absent)

----------------------------------------------------------------------------
(* ExpertCouncil._analyze_with_agent *)

\* The agents table with agent a replaced by ag.
Table(a, ag) == [agents EXCEPT ![a] = ag]

\* The lookup of the finally block: the first agent of the table whose
\* expert_name equals the agent's.
original_agent(table, a) ==
    LET same == {i \in DOMAIN table : table[i].expert_name = table[a].expert_name}
    IN  table[CHOOSE i \in same : \A j \in same : i <= j]

\* The finally block: the agent's model is set to the model of the agent
\* the lookup finds, its credential to the council's Anthropic key, and its
\* client is built again.
restore(a, ag) ==
    LET original == original_agent(Table(a, ag), a)
    IN  initialize_client([ag EXCEPT !.model = original.model,
                                     !.api_key = council.anthropic_key])

\* fallback_map.get(agent.model) is None.
NoBackup(ag) == ag.model \notin DOMAIN fallback_map

\* The dict returned when no backup model is registered for agent.model.
no_backup_result(a, ag) ==
    Result(AgentNames[a], "error", ag.model, Absent, "no_backup_model")

\* The dict returned by the except branch of the backup attempt.
backup_failed_result(a, backup_model) ==
    Result(AgentNames[a], "error", backup_model, Absent, "backup_failed")

\* What leaves _analyze_with_agent after the finally block has run: the
\* value being returned, or the exception the finally block raised.
AfterFinally(fin, returned) ==
    IF fin.raised THEN Raised("client_init") ELSE returned

\* The except branch of the primary attempt up to its next await or return:
\* look the backup up, switch the shared agent to it, build its client and
\* start analyze_stock on it.
on_primary_failure(a, ag) ==
    IF NoBackup(ag)
    THEN [agent |-> ag, pc |-> "done", invoked |-> FALSE,
          result |-> no_backup_result(a, ag)]
    ELSE LET backup == fallback_map[ag.model]
             switched == [ag EXCEPT !.model = backup.model,
                                    !.api_key = backup.api_key]
             init == initialize_client(switched)
         IN  IF init.raised
             THEN LET fin == restore(a, init.agent)
                  IN  [agent |-> fin.agent, pc |-> "done", invoked |-> FALSE,
                       result |-> AfterFinally(fin,
                                      backup_failed_result(a, backup.model))]
             ELSE [agent |-> init.agent, pc |-> "fallback", invoked |-> TRUE,
                   result |-> Pending]

\* A task: its position, the requests its analyze_stock calls were made
\* with, what each analyze_stock call returned, and its result.
NewTask == [pc |-> "none", attempts |-> <<>>, returns |-> <<>>, result |-> Pending]

\* What one analyze_stock call returned: its status, and the provider's
\* answer it was built from ("none" when no request was sent).
Return(status, payload) == [status |-> status, payload |-> payload]

\* A task of call c finishes while an earlier task of the call is still
\* running: the completion order differs from the configuration order.
Overtakes(c, a) == \E b \in Experts : b < a /\ task[c][b].pc # "done"

Finish(c, a, pc) ==
    IF pc = "done" /\ Overtakes(c, a)
    THEN [call EXCEPT ![c].out_of_order = TRUE]
    ELSE call

----------------------------------------------------------------------------
(* ExpertCouncil.__init__ and the callers' set-up *)

Environments == [openai : {"env_openai", NoKey}, anthropic : {"env_anthropic", NoKey}]

\* The callers: the Streamlit page (app.main), the interactive command line
\* (run_interactive_council_analysis), expert_council.main, and code that
\* uses an ExpertCouncil directly.
Entries == {"web", "interactive", "main", "library"}

\* Both command-line entries return before constructing a council when
\* OPENAI_API_KEY is unset.
EntryAllows(e, environment) ==
    e \in {"interactive", "main"} => environment.openai # NoKey

\* The council's keys when analysis starts: the environment's, which the
\* web page overwrites with the sidebar's after construction.
CouncilKeys(e, environment) ==
    IF e = "web"
    THEN [openai_key |-> "sidebar_openai", anthropic_key |-> "sidebar_anthropic"]
    ELSE [openai_key |-> environment.openai, anthropic_key |-> environment.anthropic]

NoReport ==
    [returned |-> FALSE, total_experts |-> 0, successful_analyses |-> 0,
     failed_analyses |-> 0, expert_analyses |-> <<>>, failed_experts |-> <<>>,
     system_status |-> <<Absent>>,
     chairman_report |-> Absent]

IdleChairman ==
    [pc |-> "idle", calls |-> 0, attempts |-> <<>>, returns |-> <<>>,
     input |-> <<>>, status |-> Absent, chairman_report |-> Absent]

\* The save_analysis_history calls that SpecStore follows, made by
\* different sessions of the web page or different runs of the command line
\* in the same working directory.
Savers == 1..NumSavers

\* A save_analysis_history call: its position, the content it read and the
\* section it is about to add.
IdleSaver == [pc |-> "idle", content |-> <<>>, new_entry |-> Absent]

\* No gate evaluation yet.
NoEval == [successes |-> 0, total |-> 0, threshold |-> 0, selected |-> {},
           evaluations |-> 0]

Construct(e, environment, n) ==
    /\ entry = e
    /\ env = environment
    /\ council = CouncilKeys(e, environment)
    /\ fallback_map = (Claude :> [model |-> Gpt5, api_key |-> environment.openai])
    /\ agents = [i \in 1..n |-> NewAgent(i, environment.anthropic, Claude)]
    /\ call = [c \in Calls |-> [phase |-> "idle", out_of_order |-> FALSE]]
    /\ task = [c \in Calls |-> [i \in 1..n |-> NewTask]]
    /\ report = [c \in Calls |-> NoReport]
    /\ gate = "pending"
    /\ chairman = IdleChairman
    /\ caller = "analysing"
    /\ history = <<>>
    /\ delivery = "pending"
    /\ saver = [s \in Savers |-> IdleSaver]

Init ==
    \E e \in Entries, environment \in Environments :
        /\ EntryAllows(e, environment)
        /\ Construct(e, environment, NumExperts)
        /\ gate_eval = NoEval

InitReuse ==
    \E environment \in Environments :
        /\ Construct("library", environment, ReuseExperts)
        /\ gate_eval = NoEval

----------------------------------------------------------------------------
(* ExpertCouncil.analyze_stock_parallel *)

\* What the user may type at the approval prompt (after strip and lower).
ApprovalAnswers == {"y", "yes", "n", ""}

Approved(answer) == answer \in {"y", "yes"}

\* require_approval as each caller passes it.
ApprovalModes(e) ==
    CASE e = "web" -> {FALSE}
      [] e \in {"interactive", "main"} -> {TRUE}
      [] OTHER -> BOOLEAN

\* The dict returned when the user declines.
cancelled_report ==
    [NoReport EXCEPT !.returned = TRUE, !.system_status = <<"cancelled">>]

\* From entry to the await of gather: the approval prompt, then one task
\* per agent of the table, created in table order.
CallStart(c, require_approval, answer) ==
    /\ call[c].phase = "idle"
    /\ IF require_approval /\ ~Approved(answer)
       THEN /\ call' = [call EXCEPT ![c].phase = "returned"]
            /\ report' = [report EXCEPT ![c] = cancelled_report]
            /\ UNCHANGED task
       ELSE /\ call' = [call EXCEPT ![c].phase = "gathering"]
            /\ task' = [task EXCEPT ![c] =
                           [a \in Experts |-> [NewTask EXCEPT !.pc = "created"]]]
            /\ UNCHANGED report
    /\ UNCHANGED <<saver, gate_eval, history, delivery, entry, env, council, fallback_map, agents, gate, chairman, caller>>

\* Every task of the call has run its first step (tasks created in one
\* synchronous loop are first run in creation order, before the event loop
\* handles any provider response).
AllStarted(c) == \A a \in Experts : task[c][a].pc \notin {"none", "created"}

\* First run of a task: _analyze_with_agent up to the provider request of
\* the primary analyze_stock call.
TaskStart(c, a) ==
    /\ call[c].phase = "gathering"
    /\ task[c][a].pc = "created"
    /\ \A b \in Experts : b < a => task[c][b].pc # "created"
    /\ LET ag == agents[a]
           first == <<Attempt(ag)>>
       IN  IF CanRequest(ag)
           THEN /\ task' = [task EXCEPT ![c][a] =
                               [pc |-> "primary", attempts |-> first,
                                returns |-> <<>>, result |-> Pending]]
                /\ UNCHANGED <<agents, call>>
           ELSE LET next == on_primary_failure(a, ag)
                IN  /\ task' = [task EXCEPT ![c][a] =
                                   [pc |-> next.pc,
                                    attempts |-> IF next.invoked
                                                 THEN Append(first, Attempt(next.agent))
                                                 ELSE first,
                                    returns |-> <<Return("error", "none")>>,
                                    result |-> next.result]]
                    /\ agents' = [agents EXCEPT ![a] = next.agent]
                    /\ call' = Finish(c, a, next.pc)
    /\ UNCHANGED <<saver, gate_eval, history, delivery, entry, env, council, fallback_map, report, gate, chairman, caller>>

\* The provider answers the primary request: analyze_stock returns, and on
\* an error status the except branch runs up to the backup request.
PrimaryResponse(c, a, outcome) ==
    /\ call[c].phase = "gathering"
    /\ task[c][a].pc = "primary"
    /\ AllStarted(c)
    /\ outcome \in ProviderOutcomes(task[c][a].attempts[1])
    /\ LET ag == agents[a]
           result == analyze_stock(ag, outcome)
       IN  IF result.status # "error"
           THEN /\ task' = [task EXCEPT ![c][a].pc = "done",
                                        ![c][a].returns = <<Return(result.status, outcome)>>,
                                        ![c][a].result = result]
                /\ call' = Finish(c, a, "done")
                /\ UNCHANGED agents
           ELSE LET next == on_primary_failure(a, ag)
                IN  /\ task' = [task EXCEPT ![c][a] =
                                   [pc |-> next.pc,
                                    attempts |-> IF next.invoked
                                                 THEN Append(@.attempts, Attempt(next.agent))
                                                 ELSE @.attempts,
                                    returns |-> <<Return(result.status, outcome)>>,
                                    result |-> next.result]]
                    /\ agents' = [agents EXCEPT ![a] = next.agent]
                    /\ call' = Finish(c, a, next.pc)
    /\ UNCHANGED <<saver, gate_eval, history, delivery, entry, env, council, fallback_map, report, gate, chairman, caller>>

\* Variant of FallbackResponse: the finally block writes the restored
\* values to the first agent of the table instead of the task's agent.
FallbackResponseRestoringFirst(c, a, outcome) ==
    /\ call[c].phase = "gathering"
    /\ task[c][a].pc = "fallback"
    /\ outcome \in ProviderOutcomes(task[c][a].attempts[2])
    /\ LET ag == agents[a]
           result == analyze_stock(ag, outcome)
           fin == restore(1, agents[1])
       IN  /\ task' = [task EXCEPT ![c][a].pc = "done",
                                   ![c][a].returns = Append(@, Return(result.status, outcome)),
                                   ![c][a].result = AfterFinally(fin, result)]
           /\ agents' = [agents EXCEPT ![1] = fin.agent]
           /\ call' = Finish(c, a, "done")
    /\ UNCHANGED <<saver, gate_eval, history, delivery, entry, env, council, fallback_map, report, gate, chairman, caller>>

\* The provider answers the backup request: analyze_stock returns its dict,
\* which is returned as it is, and the finally block runs.
FallbackResponse(c, a, outcome) ==
    /\ call[c].phase = "gathering"
    /\ task[c][a].pc = "fallback"
    /\ outcome \in ProviderOutcomes(task[c][a].attempts[2])
    /\ LET ag == agents[a]
           result == analyze_stock(ag, outcome)
           fin == restore(a, ag)
       IN  /\ task' = [task EXCEPT ![c][a].pc = "done",
                                   ![c][a].returns = Append(@, Return(result.status, outcome)),
                                   ![c][a].result = AfterFinally(fin, result)]
           /\ agents' = [agents EXCEPT ![a] = fin.agent]
           /\ call' = Finish(c, a, "done")
    /\ UNCHANGED <<saver, gate_eval, history, delivery, entry, env, council, fallback_map, report, gate, chairman, caller>>

\* Variant of gather_ready: the gather also completes as soon as one task
\* has finished with a failure.
gather_ready_first_failure(c) ==
    \/ \A a \in Experts : task[c][a].pc = "done"
    \/ \E a \in Experts : task[c][a].pc = "done" /\ task[c][a].result.status # "success"

\* Variant of gather_ready: the gather is given a deadline, after which it
\* completes with the tasks that have finished.
gather_ready_or_deadline(c) == AllStarted(c)

\* asyncio.gather(*tasks, return_exceptions=True) completes when every task
\* has finished, with a result or an exception.
gather_ready(c) == \A a \in Experts : task[c][a].pc = "done"

\* Its value: the tasks' results in the order the tasks were passed.
gather(c) == [i \in 1..Len(agents) |-> task[c][i].result]

is_success(r) == ~r.raised /\ r.status = "success"

is_failure(r) == ~is_success(r)

\* Variant of failed_entry: an exception is appended as it is.
failed_entry_unconverted(r) == r

\* The entry the loop appends to failed_results for a result.
failed_entry(r) ==
    IF r.raised
    THEN [Result(UnknownExpert, "error", Absent, Absent, Absent) EXCEPT !.error = r.error]
    ELSE r

Reverse(seq) == [i \in 1..Len(seq) |-> seq[Len(seq) + 1 - i]]

\* Variant of successful_results: each success is put in front of the list.
successful_results_prepended(results) == Reverse(SelectSeq(results, is_success))

\* The list of the results with status success, in the order of results.
successful_results(results) == SelectSeq(results, is_success)

is_classified_failure(r) == ~r.raised /\ r.status # "success"

\* Variant of failed_results: a result that is an exception is skipped.
failed_results_skipping_exceptions(results) ==
    SelectSeq(results, is_classified_failure)

\* The list of the other results, in the order of results, an exception
\* replaced by an error entry.
failed_results(results) ==
    LET failed == SelectSeq(results, is_failure)
    IN  [i \in 1..Len(failed) |-> failed_entry(failed[i])]

\* ExpertCouncil._get_system_status: the message names the total alone, or
\* the total, the successes and the number missing.
get_system_status(successful_count, total_count) ==
    IF successful_count = total_count
    THEN <<"all", total_count>>
    ELSE <<"partial", total_count, successful_count, total_count - successful_count>>

\* The dict built from the gathered results.
council_result(results) ==
    [returned |-> TRUE,
     total_experts |-> Len(agents),
     successful_analyses |-> Len(successful_results(results)),
     failed_analyses |-> Len(failed_results(results)),
     expert_analyses |-> successful_results(results),
     failed_experts |-> failed_results(results),
     system_status |-> get_system_status(Len(successful_results(results)), Len(agents)),
     chairman_report |-> Absent]

\* Variant of Join: gather is called without return_exceptions, so a task's
\* exception leaves analyze_stock_parallel instead of a report.
JoinPropagating(c) ==
    /\ call[c].phase = "gathering"
    /\ gather_ready(c)
    /\ IF \E a \in Experts : task[c][a].result.raised
       THEN /\ call' = [call EXCEPT ![c].phase = "raised"]
            /\ UNCHANGED report
       ELSE /\ report' = [report EXCEPT ![c] = council_result(gather(c))]
            /\ call' = [call EXCEPT ![c].phase = "returned"]
    /\ UNCHANGED <<saver, gate_eval, history, delivery, entry, env, council, fallback_map, agents, task, gate, chairman, caller>>

\* gather completes; the results are classified and the report returned.
Join(c) ==
    /\ call[c].phase = "gathering"
    /\ gather_ready(c)
    /\ report' = [report EXCEPT ![c] = council_result(gather(c))]
    /\ call' = [call EXCEPT ![c].phase = "returned"]
    /\ UNCHANGED <<saver, gate_eval, history, delivery, entry, env, council, fallback_map, agents, task, gate, chairman, caller>>

----------------------------------------------------------------------------
(* ExpertCouncil.get_chairman_verdict *)

chairman_primary_model == Claude

chairman_fallback_model == Gpt5

\* The call up to the request to the primary chairman model: the reports
\* are concatenated in the order given and an Anthropic client is built
\* from the council's key.
StartChairman(successful_reports) ==
    chairman' = [pc |-> "primary",
                 calls |-> chairman.calls + 1,
                 attempts |-> <<[model |-> chairman_primary_model,
                                 service |-> "anthropic",
                                 api_key |-> ClientKey("anthropic", council.anthropic_key)]>>,
                 returns |-> <<>>,
                 input |-> successful_reports,
                 status |-> Absent,
                 chairman_report |-> Absent]

\* The text taken from the primary model's response: its first content
\* block, or a failure notice when the response has no content.
primary_report(outcome) == IF outcome = "empty" THEN "placeholder" ELSE "text"

\* The text taken from the backup model's response: the message content as
\* it is.
backup_report(outcome) == IF outcome = "empty" THEN "empty" ELSE "text"

\* Both callers: the chairman's report is put into the analysis result
\* when the verdict's status is success.
Attach(status, text) ==
    IF status = "success"
    THEN report' = [report EXCEPT ![1].chairman_report = text]
    ELSE UNCHANGED report

\* The primary chairman model answers; on an error the backup client is
\* built from the council's OpenAI key and the backup request is sent.
ChairmanPrimaryResponse(outcome) ==
    /\ chairman.pc = "primary"
    /\ outcome \in ProviderOutcomes(chairman.attempts[1])
    /\ IF outcome # "error"
       THEN /\ chairman' = [chairman EXCEPT !.pc = "done", !.status = "success",
                                            !.returns = Append(@, outcome),
                                            !.chairman_report = primary_report(outcome)]
            /\ Attach("success", primary_report(outcome))
            /\ caller' = "done"
       ELSE LET made == NewClient("openai", council.openai_key)
            IN  IF made.raised
                THEN /\ chairman' = [chairman EXCEPT !.pc = "done", !.status = "error",
                                                     !.returns = Append(@, outcome)]
                     /\ caller' = "done"
                     /\ UNCHANGED report
                ELSE /\ chairman' = [chairman EXCEPT
                                        !.pc = "fallback",
                                        !.returns = Append(@, outcome),
                                        !.attempts = Append(@,
                                            [model |-> chairman_fallback_model,
                                             service |-> made.client.service,
                                             api_key |-> made.client.api_key])]
                     /\ UNCHANGED <<report, caller>>
    /\ UNCHANGED <<saver, gate_eval, history, delivery, entry, env, council, fallback_map, agents, call, task, gate>>

\* Variant of ChairmanFallbackResponse: a failed backup request is sent
\* once more before the call gives up.
ChairmanFallbackResponseRetrying(outcome) ==
    /\ chairman.pc = "fallback"
    /\ outcome \in ProviderOutcomes(chairman.attempts[2])
    /\ IF outcome # "error"
       THEN /\ chairman' = [chairman EXCEPT !.pc = "done", !.status = "success",
                                            !.returns = Append(@, outcome),
                                            !.chairman_report = backup_report(outcome)]
            /\ Attach("success", backup_report(outcome))
            /\ caller' = "done"
       ELSE IF Len(chairman.attempts) < 3
       THEN /\ chairman' = [chairman EXCEPT !.returns = Append(@, outcome),
                                            !.attempts = Append(@, chairman.attempts[2])]
            /\ UNCHANGED <<report, caller>>
       ELSE /\ chairman' = [chairman EXCEPT !.pc = "done", !.status = "error",
                                            !.returns = Append(@, outcome)]
            /\ caller' = "done"
            /\ UNCHANGED report
    /\ UNCHANGED <<saver, gate_eval, history, delivery, entry, env, council, fallback_map, agents, call, task, gate>>

\* The backup chairman model answers.
ChairmanFallbackResponse(outcome) ==
    /\ chairman.pc = "fallback"
    /\ outcome \in ProviderOutcomes(chairman.attempts[2])
    /\ IF outcome # "error"
       THEN /\ chairman' = [chairman EXCEPT !.pc = "done", !.status = "success",
                                            !.returns = Append(@, outcome),
                                            !.chairman_report = backup_report(outcome)]
            /\ Attach("success", backup_report(outcome))
       ELSE /\ chairman' = [chairman EXCEPT !.pc = "done", !.status = "error",
                                            !.returns = Append(@, outcome)]
            /\ UNCHANGED report
    /\ caller' = "done"
    /\ UNCHANGED <<saver, gate_eval, history, delivery, entry, env, council, fallback_map, agents, call, task, gate>>

----------------------------------------------------------------------------
(* The callers of analyze_stock_parallel *)

\* Variant of get_expert_analyses: the failed experts' entries are handed
\* over with the successful ones.
get_expert_analyses_with_failed(result) ==
    result.expert_analyses \o result.failed_experts

\* result.get('expert_analyses', []): what both callers count and hand to
\* get_chairman_verdict as successful_reports.
get_expert_analyses(result) == result.expert_analyses

Decisions == {"Synthesize", "IndividualOnly", "None"}

\* Variant of branches_taken: three separate if statements, the last one
\* testing for no success.
branches_taken_separately(n, threshold) ==
    {d \in Decisions :
        \/ d = "Synthesize" /\ n >= threshold
        \/ d = "IndividualOnly" /\ (1 <= n /\ n < threshold)
        \/ d = "None" /\ n = 0}

\* The branches of the if / elif / else of run_interactive_council_analysis
\* that are entered for n successful reports, with the literal 3 of both
\* comparisons read as the threshold.
branches_taken(n, threshold) ==
    {d \in Decisions :
        \/ d = "Synthesize" /\ n >= threshold
        \/ d = "IndividualOnly" /\ ~(n >= threshold) /\ (1 <= n /\ n < threshold)
        \/ d = "None" /\ ~(n >= threshold) /\ ~(1 <= n /\ n < threshold)}

\* Variant of decide_interactive: the first comparison is strict.
decide_interactive_strict(successful_reports) ==
    IF Len(successful_reports) > QuorumThreshold THEN "Synthesize"
    ELSE IF 1 <= Len(successful_reports) /\ Len(successful_reports) <= QuorumThreshold
    THEN "IndividualOnly"
    ELSE "None"

\* run_interactive_council_analysis: the if / elif / else on the number of
\* successful reports.
decide_interactive(successful_reports) ==
    IF Len(successful_reports) >= QuorumThreshold THEN "Synthesize"
    ELSE IF 1 <= Len(successful_reports) /\ Len(successful_reports) < QuorumThreshold
    THEN "IndividualOnly"
    ELSE "None"

\* Variant of decide_web: the comparison is strict.
decide_web_strict(successful_reports) ==
    IF Len(successful_reports) > QuorumThreshold THEN "Synthesize"
    ELSE IF successful_reports # <<>> THEN "IndividualOnly"
    ELSE "None"

\* The web page: run_async_analysis asks for the chairman's verdict with
\* three or more successful reports; without it app.main shows the
\* individual reports when the list is not empty, and an error otherwise.
decide_web(successful_reports) ==
    IF Len(successful_reports) >= QuorumThreshold THEN "Synthesize"
    ELSE IF successful_reports # <<>> THEN "IndividualOnly"
    ELSE "None"

\* Variant of Decide: the chairman is asked whenever a report succeeded.
DecideUngated(decision, successful_reports) ==
    /\ gate' = decision
    /\ IF successful_reports # <<>>
       THEN /\ StartChairman(successful_reports)
            /\ caller' = "synthesizing"
       ELSE /\ caller' = "done"
            /\ UNCHANGED chairman

\* Variant of Decide: the verdict is started without being awaited, and the
\* caller goes on at once.
DecideDetached(decision, successful_reports) ==
    /\ gate' = decision
    /\ caller' = "done"
    /\ IF decision = "Synthesize"
       THEN StartChairman(successful_reports)
       ELSE UNCHANGED chairman

\* The caller acts on its decision: the chairman is asked for a verdict
\* only when the decision is to synthesize.
Decide(decision, successful_reports) ==
    /\ gate' = decision
    /\ IF decision = "Synthesize"
       THEN /\ StartChairman(successful_reports)
            /\ caller' = "synthesizing"
       ELSE /\ caller' = "done"
            /\ UNCHANGED chairman

GateWeb ==
    /\ entry = "web"
    /\ caller = "analysing"
    /\ report[1].returned
    /\ Decide(decide_web(get_expert_analyses(report[1])), get_expert_analyses(report[1]))
    /\ UNCHANGED <<saver, gate_eval, history, delivery, entry, env, council, fallback_map, agents, call, task, report>>

GateInteractive ==
    /\ entry = "interactive"
    /\ caller = "analysing"
    /\ report[1].returned
    /\ IF report[1].system_status[1] = "cancelled"
       THEN /\ caller' = "done"
            /\ UNCHANGED <<gate, chairman>>
       ELSE Decide(decide_interactive(get_expert_analyses(report[1])),
                   get_expert_analyses(report[1]))
    /\ UNCHANGED <<saver, gate_eval, history, delivery, entry, env, council, fallback_map, agents, call, task, report>>

\* expert_council.main prints the report; it asks for no verdict.
MainPresent ==
    /\ entry = "main"
    /\ caller = "analysing"
    /\ report[1].returned
    /\ caller' = "done"
    /\ UNCHANGED <<saver, gate_eval, history, delivery, entry, env, council, fallback_map, agents, call, task, report,
                   gate, chairman>>

----------------------------------------------------------------------------
(* ExpertCouncil.save_analysis_history and the callers' use of it *)

\* How the history file answers: it is read and rewritten, or opening it
\* for reading or for writing raises an error other than a missing file.
StoreOutcomes == {"ok", "io_error"}

\* The section of the history file built from an analysis result: its
\* status line, the chairman's report when the result holds a non-empty
\* one, and the names of the successful and of the failed experts.
new_entry(result) ==
    [system_status |-> result.system_status,
     chairman_report |-> IF result.chairman_report \in {Absent, "empty"}
                         THEN Absent
                         ELSE result.chairman_report,
     expert_analyses |-> [i \in 1..Len(result.expert_analyses) |->
                             result.expert_analyses[i].expert_name],
     failed_experts |-> [i \in 1..Len(result.failed_experts) |->
                            result.failed_experts[i].expert_name]]

\* save_analysis_history: the file's content with the new section after
\* it, or the error the file raised.
save_analysis_history(result, store) ==
    IF store = "ok"
    THEN [raised |-> FALSE, history |-> Append(history, new_entry(result))]
    ELSE [raised |-> TRUE, history |-> history]

\* The analysis result that call s of SpecStore saves: a report of a run in
\* which the first s experts succeeded.
saved_result(s) ==
    council_result([i \in 1..Len(agents) |->
        IF i <= s
        THEN Result(ExpertNames[i], "success", Claude, "text", Absent)
        ELSE Result(ExpertNames[i], "error", Gpt5, Absent, "provider_error")])

\* First half of save_analysis_history: the whole file is read into
\* content (the header alone when there is no file) and the new section is
\* built.
SaveRead(s) ==
    /\ saver[s].pc = "idle"
    /\ saver' = [saver EXCEPT ![s] = [pc |-> "read", content |-> history,
                                      new_entry |-> new_entry(saved_result(s))]]
    /\ UNCHANGED <<gate_eval, history, delivery, entry, env, council, fallback_map,
                   agents, call, task, report, gate, chairman, caller>>

\* Second half: the file is opened for writing and content + new_entry is
\* written over it, or opening it raises.
SaveWrite(s, store) ==
    /\ saver[s].pc = "read"
    /\ IF store = "ok"
       THEN /\ history' = Append(saver[s].content, saver[s].new_entry)
            /\ saver' = [saver EXCEPT ![s].pc = "done"]
       ELSE /\ saver' = [saver EXCEPT ![s].pc = "failed"]
            /\ UNCHANGED history
    /\ UNCHANGED <<gate_eval, delivery, entry, env, council, fallback_map,
                   agents, call, task, report, gate, chairman, caller>>

\* The web page: the result run_async_analysis returned has been shown;
\* the save is inside a try / except that turns an error into a warning.
PersistWeb(store) ==
    /\ entry = "web"
    /\ caller = "done"
    /\ delivery = "pending"
    /\ history' = save_analysis_history(report[1], store).history
    /\ delivery' = "report"
    /\ UNCHANGED <<saver, gate_eval, entry, env, council, fallback_map, agents, call,
                   task, report, gate, chairman, caller>>

\* Variant of PersistInteractive: the test for a cancelled analysis is
\* missing, as in expert_council.main, and the cancelled report is saved.
PersistInteractiveSavingCancelled(store) ==
    /\ entry = "interactive"
    /\ caller = "done"
    /\ delivery = "pending"
    /\ LET saved == save_analysis_history(report[1], store)
       IN  /\ history' = saved.history
           /\ delivery' = IF saved.raised THEN "exception" ELSE "report"
    /\ UNCHANGED <<saver, gate_eval, entry, env, council, fallback_map, agents, call,
                   task, report, gate, chairman, caller>>

\* run_interactive_council_analysis: after a cancelled analysis it returns
\* nothing; otherwise it saves and then returns the result, and an error
\* of the save leaves the function as an exception.
PersistInteractive(store) ==
    /\ entry = "interactive"
    /\ caller = "done"
    /\ delivery = "pending"
    /\ IF report[1].system_status[1] = "cancelled"
       THEN /\ delivery' = "nothing"
            /\ UNCHANGED history
       ELSE LET saved == save_analysis_history(report[1], store)
            IN  /\ history' = saved.history
                /\ delivery' = IF saved.raised THEN "exception" ELSE "report"
    /\ UNCHANGED <<saver, gate_eval, entry, env, council, fallback_map, agents, call,
                   task, report, gate, chairman, caller>>

\* expert_council.main: run_analysis saves and then returns the result; an
\* error of the save leaves run_analysis as an exception, which main
\* reports as a failed analysis.
PersistMain(store) ==
    /\ entry = "main"
    /\ caller = "done"
    /\ delivery = "pending"
    /\ LET saved == save_analysis_history(report[1], store)
       IN  /\ history' = saved.history
           /\ delivery' = IF saved.raised THEN "exception" ELSE "report"
    /\ UNCHANGED <<saver, gate_eval, entry, env, council, fallback_map, agents, call,
                   task, report, gate, chairman, caller>>

----------------------------------------------------------------------------
(* Specifications *)

Outcomes == {"text", "empty", "error"}

\* One analysis by one caller on a freshly constructed council.
Next ==
    \/ \E ra \in ApprovalModes(entry), answer \in ApprovalAnswers : CallStart(1, ra, answer)
    \/ \E a \in Experts : TaskStart(1, a)
    \/ \E a \in Experts, outcome \in Outcomes : PrimaryResponse(1, a, outcome)
    \/ \E a \in Experts, outcome \in Outcomes : FallbackResponse(1, a, outcome)
    \/ Join(1)
    \/ GateWeb
    \/ GateInteractive
    \/ MainPresent
    \/ \E outcome \in Outcomes : ChairmanPrimaryResponse(outcome)
    \/ \E outcome \in Outcomes : ChairmanFallbackResponse(outcome)
    \/ \E store \in StoreOutcomes : PersistWeb(store)
    \/ \E store \in StoreOutcomes : PersistInteractive(store)
    \/ \E store \in StoreOutcomes : PersistMain(store)

Spec == Init /\ [][Next]_vars

InitLive ==
    \E e \in Entries, environment \in Environments :
        /\ EntryAllows(e, environment)
        /\ Construct(e, environment, LiveExperts)
        /\ gate_eval = NoEval

\* One analysis with the progress the event loop gives: a coroutine that
\* can run is run, every provider request is answered or fails, the user
\* answers the approval prompt and the history file answers.
FairSpec == InitLive /\ [][Next]_vars /\ WF_vars(Next)

\* Two analyze_stock_parallel calls on one council, one after the other or
\* overlapping, made by code that uses the council directly.
NextReuse ==
    \/ \E c \in Calls, ra \in BOOLEAN, answer \in ApprovalAnswers : CallStart(c, ra, answer)
    \/ \E c \in Calls, a \in Experts : TaskStart(c, a)
    \/ \E c \in Calls, a \in Experts, outcome \in Outcomes : PrimaryResponse(c, a, outcome)
    \/ \E c \in Calls, a \in Experts, outcome \in Outcomes : FallbackResponse(c, a, outcome)
    \/ \E c \in Calls : Join(c)

SpecReuse == InitReuse /\ [][NextReuse]_vars

\* The counts and the threshold the gate is evaluated on.
InitGate ==
    /\ Construct("interactive", [openai |-> "env_openai", anthropic |-> "env_anthropic"],
                 NumExperts)
    /\ \E t \in 0..GateMaxTotal, n \in 0..GateMaxTotal, threshold \in 0..GateMaxThreshold :
           /\ n <= t
           /\ gate_eval = [NoEval EXCEPT !.successes = n, !.total = t,
                                         !.threshold = threshold]

\* One evaluation of the caller's if / elif / else on the counts.
GateEvaluate ==
    /\ gate_eval.evaluations < GateMaxEvaluations
    /\ gate_eval' = [gate_eval EXCEPT
                        !.selected = branches_taken(gate_eval.successes,
                                                    gate_eval.threshold),
                        !.evaluations = @ + 1]
    /\ UNCHANGED <<saver, history, delivery, entry, env, council, fallback_map, agents,
                   call, task, report, gate, chairman, caller>>

\* The gate of the interactive caller on every count and threshold.
SpecGate == InitGate /\ [][GateEvaluate]_vars

\* Two analyze_stock_parallel calls on one council one after the other: the
\* second starts when the first has returned.
NextSequence ==
    \/ \E c \in Calls, ra \in BOOLEAN, answer \in ApprovalAnswers :
           /\ c = 2 => call[1].phase = "returned"
           /\ CallStart(c, ra, answer)
    \/ \E c \in Calls, a \in Experts : TaskStart(c, a)
    \/ \E c \in Calls, a \in Experts, outcome \in Outcomes : PrimaryResponse(c, a, outcome)
    \/ \E c \in Calls, a \in Experts, outcome \in Outcomes : FallbackResponse(c, a, outcome)
    \/ \E c \in Calls : Join(c)

SpecSequence == InitReuse /\ [][NextSequence]_vars

InitStore ==
    /\ Construct("web", [openai |-> "env_openai", anthropic |-> "env_anthropic"],
                 NumExperts)
    /\ gate_eval = NoEval

NextStore ==
    \/ \E s \in Savers : SaveRead(s)
    \/ \E s \in Savers, store \in StoreOutcomes : SaveWrite(s, store)

\* save_analysis_history calls on one history file by sessions of the web
\* page or runs of the command line that overlap in time; between the read
\* and the write of one call the others may run.
SpecStore == InitStore /\ [][NextStore]_vars

\* Sizes of the agents table analyze_stock_parallel may find: the table is
\* a plain attribute of the council, which code that uses the council
\* directly can replace (as the web page replaces the council's keys), also
\* by an empty dict.
ConfiguredSizes == {0, ReuseExperts}

InitConfigured ==
    \E environment \in Environments, n \in ConfiguredSizes :
        /\ Construct("library", environment, n)
        /\ gate_eval = NoEval

\* analyze_stock_parallel on a council whose agents table was replaced.
SpecConfigured == InitConfigured /\ [][NextReuse]_vars

----------------------------------------------------------------------------
(* Properties *)

\* A report of a call that ran the experts (the user did not decline).
Reported(c) == report[c].returned /\ report[c].system_status[1] # "cancelled"

\* Both credentials are set in the environment.
FullyKeyed == env.openai # NoKey /\ env.anthropic # NoKey

\* The model and the credential every agent is constructed with.
ConfiguredAgent(a) == NewAgent(a, env.anthropic, Claude)

\* Position of a producer in the agents table, by either of its names.
ProducerIndex(name) ==
    CHOOSE i \in 1..NumExperts : ExpertNames[i] = name \/ AgentNames[i] = name

KnownProducer(name) ==
    \E i \in 1..NumExperts : ExpertNames[i] = name \/ AgentNames[i] = name

\* The entries of a list of report entries name producers in table order.
InTableOrder(entries) ==
    \A i, j \in 1..Len(entries) :
        (i < j /\ KnownProducer(entries[i].expert_name)
               /\ KnownProducer(entries[j].expert_name))
            => ProducerIndex(entries[i].expert_name) < ProducerIndex(entries[j].expert_name)

\* C1: a report of a call that was not cancelled holds one entry per agent
\* of the table: the two lists together are as long as total_experts, which
\* is the size of the table, and the two counters are the lists' lengths.
C1_Cardinality ==
    \A c \in Calls :
        Reported(c) =>
            /\ Len(report[c].expert_analyses) + Len(report[c].failed_experts)
                   = report[c].total_experts
            /\ report[c].total_experts = NumExperts
            /\ report[c].successful_analyses = Len(report[c].expert_analyses)
            /\ report[c].failed_analyses = Len(report[c].failed_experts)

\* C1 witness: a report that mixes successes with classified failures.
C1_Witness ==
    /\ Reported(1)
    /\ report[1].successful_analyses >= 1
    /\ report[1].failed_analyses >= 1
    /\ \E i \in 1..Len(report[1].failed_experts) :
           report[1].failed_experts[i].error_message = "provider_error"

\* C2 (as claimed): with both credentials set, a finished
\* _analyze_with_agent call has made one analyze_stock call when the primary
\* succeeded, two when the primary failed (every agent's configured model
\* has a backup registered), and never more than two.
C2_FallbackAtMostOnce ==
    \A c \in Calls, a \in Experts :
        (FullyKeyed /\ task[c][a].pc = "done") =>
            /\ Len(task[c][a].attempts) <= 2
            /\ task[c][a].returns[1].status = "success"
                   => Len(task[c][a].attempts) = 1
            /\ (task[c][a].returns[1].status = "error"
                    /\ ConfiguredAgent(a).model \in DOMAIN fallback_map)
                   => Len(task[c][a].attempts) = 2

\* C3 (as claimed): with both credentials set, the agents of the shared
\* table keep the model, the credential and the client they were
\* constructed with from the start of analyze_stock_parallel to its end.
C3_ConfigReadOnly ==
    FullyKeyed => \A a \in Experts : agents[a] = ConfiguredAgent(a)

\* C4 (as claimed): with both credentials set, while two calls run on the
\* same council the primary request of every task is made with the agent's
\* configured model and with the client built from its configured
\* credential.
C4_Isolation ==
    (FullyKeyed /\ call[1].phase = "gathering" /\ call[2].phase = "gathering") =>
        \A c \in Calls, a \in Experts :
            task[c][a].attempts # <<>> =>
                task[c][a].attempts[1] = Attempt(ConfiguredAgent(a))

\* C5: once a caller has decided, the decision is Synthesize exactly when
\* the report counts 3 or more successes, IndividualOnly exactly when it
\* counts 1 or 2, and None exactly when it counts none.
C5_QuorumCorrectness ==
    gate # "pending" =>
        /\ gate \in {"Synthesize", "IndividualOnly", "None"}
        /\ gate = "Synthesize" <=> report[1].successful_analyses >= 3
        /\ gate = "IndividualOnly" <=> (0 < report[1].successful_analyses
                                          /\ report[1].successful_analyses < 3)
        /\ gate = "None" <=> report[1].successful_analyses = 0

\* C5 witness: three of the five experts succeeded and the caller decided
\* to synthesize.
C5_Witness ==
    /\ gate = "Synthesize"
    /\ report[1].successful_analyses = 3
    /\ report[1].failed_analyses = 2

C7_FullBarrier ==
    \A c \in Calls :
        Reported(c) =>
            \A a \in Experts :
                /\ task[c][a].pc = "done"
                /\ task[c][a].result # Pending
                /\ task[c][a].attempts # <<>>

\* C7 witness: a report after a run in which the first task failed and a
\* later task succeeded.
C7_Witness ==
    /\ Reported(1)
    /\ is_failure(task[1][1].result)
    /\ is_success(task[1][NumExperts].result)

\* C8: both lists of a report name the producers in the order of the agents
\* table, whatever the order in which the tasks finished.
C8_ReportOrder ==
    \A c \in Calls :
        Reported(c) =>
            /\ InTableOrder(report[c].expert_analyses)
            /\ InTableOrder(report[c].failed_experts)

\* C8 witness: a report with two successes and two failures after a run in
\* which a task finished before an earlier task of the table.
C8_Witness ==
    /\ Reported(1)
    /\ call[1].out_of_order
    /\ Len(report[1].expert_analyses) >= 2
    /\ Len(report[1].failed_experts) >= 2

\* C9 (as claimed): an analyze_stock call whose provider answered with an
\* empty payload does not return success, and the result of a task whose
\* last answer was empty is not a success.
C9_EmptyIsFailure ==
    \A c \in Calls, a \in Experts :
        \A k \in 1..Len(task[c][a].returns) :
            task[c][a].returns[k].payload = "empty"
                => /\ task[c][a].returns[k].status = "error"
                   /\ (k = Len(task[c][a].returns) /\ task[c][a].pc = "done")
                          => ~is_success(task[c][a].result)

\* C10: a task whose primary analyze_stock call returned an error and whose
\* backup call returned success ends with a success result tagged with the
\* backup model, not with the model the agent was configured with.
C10_FallbackTagged ==
    \A c \in Calls, a \in Experts :
        (/\ task[c][a].pc = "done"
         /\ Len(task[c][a].returns) = 2
         /\ task[c][a].returns[1].status = "error"
         /\ task[c][a].returns[2].status = "success")
            => /\ is_success(task[c][a].result)
               /\ task[c][a].result.model_used = fallback_map[ConfiguredAgent(a).model].model
               /\ task[c][a].result.model_used # ConfiguredAgent(a).model

\* C10 witness: a finished task whose primary failed and whose backup
\* succeeded.
C10_Witness ==
    \E a \in Experts :
        /\ task[1][a].pc = "done"
        /\ Len(task[1][a].returns) = 2
        /\ task[1][a].returns[1].status = "error"
        /\ task[1][a].returns[2].status = "success"
        /\ task[1][a].attempts[2].model = Gpt5

\* C11 (as claimed): every finished _analyze_with_agent call has handed
\* back a result dict whose status is success or error; none has ended
\* with an exception, also when building the backup client or the client
\* of the finally block failed.
C11_NoEscape ==
    \A c \in Calls, a \in Experts :
        task[c][a].pc = "done" =>
            /\ ~task[c][a].result.raised
            /\ task[c][a].result.status \in {"success", "error"}

\* The tasks of a call that ended with an exception.
RaisedTasks(c) == {a \in Experts : task[c][a].result.raised}

\* The entries of a report's failed list that were built from an exception.
ExceptionEntries(c) ==
    {i \in 1..Len(report[c].failed_experts) :
        report[c].failed_experts[i].expert_name = UnknownExpert}

\* C12: when tasks of a call ended with an exception, the call still returns
\* its report; the failed list holds one entry per such task, each a dict
\* with status error that carries the exception's text, and the two lists
\* together still hold one entry per agent.
C12_JoinRecovery ==
    \A c \in Calls :
        Reported(c) =>
            /\ Cardinality(ExceptionEntries(c)) = Cardinality(RaisedTasks(c))
            /\ \A i \in 1..Len(report[c].failed_experts) :
                   /\ ~report[c].failed_experts[i].raised
                   /\ report[c].failed_experts[i].status = "error"
            /\ \A i \in ExceptionEntries(c) :
                   report[c].failed_experts[i].error = "client_init"
            /\ Len(report[c].expert_analyses) + Len(report[c].failed_experts)
                   = Len(agents)

\* C12 witness: a report of a call in which a task ended with an exception.
C12_Witness ==
    /\ Reported(1)
    /\ RaisedTasks(1) # {}
    /\ ExceptionEntries(1) # {}

\* C13 (as claimed): the status of a report says that all succeeded exactly
\* when the successes equal the total, is a status of its own (neither the
\* all-succeeded nor the partial one) when there is no success, and is the
\* partial status naming the successes and the total otherwise.
C13_StatusClassification ==
    \A c \in Calls :
        Reported(c) =>
            LET s == report[c].successful_analyses
                t == report[c].total_experts
                status == report[c].system_status
            IN  /\ s = t => status = <<"all", t>>
                /\ (0 < s /\ s < t) => status = <<"partial", t, s, t - s>>
                /\ (s = 0 /\ t > 0) => status[1] \notin {"all", "partial"}

\* The numbers of tasks of a call that ended with a success and otherwise.
TrueSuccesses(c) == Cardinality({a \in Experts : is_success(task[c][a].result)})

TrueFailures(c) == Cardinality({a \in Experts : is_failure(task[c][a].result)})

\* C14: analyze_stock_parallel ends by returning a report, never by
\* raising, whatever the tasks ended with; the report's counts are the
\* numbers of tasks that succeeded and that failed; and when every task
\* failed it counts no success and as many failures as agents, the caller
\* decides for no presentation, and no chairman verdict is asked for or put
\* into the report.
C14_NeverFailsOutright ==
    \A c \in Calls :
        /\ call[c].phase \in {"idle", "gathering", "returned"}
        /\ call[c].phase = "returned" => report[c].returned
        /\ Reported(c) =>
               /\ report[c].successful_analyses = TrueSuccesses(c)
               /\ report[c].failed_analyses = TrueFailures(c)
               /\ TrueSuccesses(c) = 0 =>
                      /\ report[c].successful_analyses = 0
                      /\ report[c].failed_analyses = report[c].total_experts
                      /\ report[c].total_experts = Len(agents)
                      /\ report[c].chairman_report = Absent
                      /\ c = 1 => /\ chairman.calls = 0
                                  /\ gate \in {"pending", "None"}

\* C14 witness: every expert failed, the report counts five failures and
\* the caller has finished without a synthesis.
C14_Witness ==
    /\ Reported(1)
    /\ TrueSuccesses(1) = 0
    /\ report[1].failed_analyses = NumExperts
    /\ caller = "done"
    /\ gate = "None"

\* C15: a get_chairman_verdict call sends its first request to the primary
\* chairman model; it sends a second request, to the backup model, only
\* after the primary request failed; it sends no more than two; and when
\* it has finished after failures only, its status is error.
C15_ChairmanFallback ==
    chairman.pc # "idle" =>
        /\ Len(chairman.attempts) \in {1, 2}
        /\ chairman.attempts[1].model = chairman_primary_model
        /\ Len(chairman.attempts) = 2 =>
               /\ chairman.attempts[2].model = chairman_fallback_model
               /\ chairman.returns # <<>>
               /\ chairman.returns[1] = "error"
        /\ (chairman.returns # <<>> /\ chairman.returns[1] # "error") =>
               /\ Len(chairman.attempts) = 1
               /\ chairman.pc = "done"
               /\ chairman.status = "success"
        /\ Len(chairman.returns) <= Len(chairman.attempts)
        /\ chairman.pc = "done" =>
               /\ chairman.status \in {"success", "error"}
               /\ chairman.status = "error" <=>
                      \A k \in 1..Len(chairman.returns) : chairman.returns[k] = "error"

\* C15 witness: the primary and the backup chairman request both failed and
\* the call ended with status error.
C15_Witness ==
    /\ chairman.pc = "done"
    /\ chairman.returns = <<"error", "error">>
    /\ Len(chairman.attempts) = 2
    /\ chairman.status = "error"

\* C16 (as claimed): when the caller asked for the chairman's verdict and
\* both chairman requests failed, the caller's report still holds every
\* expert's result, and it records the failed synthesis: it differs from
\* the report of the same experts' run for which no verdict was asked.
C16_SynthesisFailureRecorded ==
    (gate = "Synthesize" /\ chairman.pc = "done" /\ chairman.status = "error") =>
        /\ report[1].returned
        /\ report[1].expert_analyses = successful_results(gather(1))
        /\ report[1].failed_experts = failed_results(gather(1))
        /\ report[1] # council_result(gather(1))

\* C17: the reports handed to get_chairman_verdict are the results of the
\* call's tasks that ended with success: all of them, nothing else, and in
\* the order of the agents table whatever the order the tasks finished in.
C17_SynthesizerInput ==
    chairman.calls > 0 =>
        /\ chairman.input = successful_results(gather(1))
        /\ Len(chairman.input) = TrueSuccesses(1)
        /\ \A i \in 1..Len(chairman.input) : is_success(chairman.input[i])
        /\ \A a \in Experts :
               is_success(task[1][a].result) <=>
                   \E i \in 1..Len(chairman.input) : chairman.input[i] = task[1][a].result
        /\ InTableOrder(chairman.input)

\* C17 witness: the chairman was handed exactly three reports after a run in
\* which two experts failed and a task finished before an earlier one.
C17_Witness ==
    /\ chairman.calls = 1
    /\ Len(chairman.input) = 3
    /\ report[1].failed_analyses = 2
    /\ call[1].out_of_order

\* C18 (as claimed): whatever the history file answers to the save, the
\* entry function that computed a report hands that report to its caller.
C18_StoreFailureHarmless ==
    (Reported(1) /\ delivery # "pending") => delivery = "report"

RunReturned == report[1].returned /\ (entry # "library" => caller = "done")

\* C20: every run ends: analyze_stock_parallel returns its report and the
\* caller gets past the decision and the verdict, and the entry function
\* ends; and the caller is past them only when the call has returned, every
\* task has finished and a verdict that was asked for has been answered.
C20_Termination ==
    /\ <>RunReturned
    /\ <>(entry # "library" => delivery # "pending")
    /\ [](caller = "done" =>
              /\ call[1].phase = "returned"
              /\ report[1].returned
              /\ Reported(1) => gather_ready(1)
              /\ chairman.pc \in {"idle", "done"}
              /\ gate = "Synthesize" => chairman.pc = "done")

\* C20 witness: a run that ended after the verdict was asked for and both
\* chairman requests were answered.
C20_Witness ==
    /\ RunReturned
    /\ gate = "Synthesize"
    /\ chairman.pc = "done"
    /\ Len(chairman.attempts) = 2
    /\ delivery # "pending"

\* A list of n successful reports.
ReportsOfLength(n) == [i \in 1..n |-> i]

EntriesOf(s) == {i \in 1..Len(history) : history[i] = saver[s].new_entry}

\* C22 (as claimed): whatever the interleaving of save_analysis_history
\* calls, the section of every call that has completed is in the history
\* file, once, and the file holds one section per completed call (no call's
\* write removed an earlier call's section).
C22_AppendOnly ==
    /\ \A s \in Savers : saver[s].pc = "done" => Cardinality(EntriesOf(s)) = 1
    /\ Len(history) = Cardinality({s \in Savers : saver[s].pc = "done"})

\* A finished task that made a backup attempt.
FellBack(c, a) == task[c][a].pc = "done" /\ Len(task[c][a].attempts) = 2

\* C23 (as claimed): with both credentials set, once a task that made a
\* backup attempt has finished, with success or failure, its agent holds the
\* model, the credential and the client it held before the call: those it
\* was constructed with.
C23_RestoreAfterFallback ==
    \A a \in Experts :
        (FullyKeyed /\ FellBack(1, a)) =>
            /\ agents[a].model = ConfiguredAgent(a).model
            /\ agents[a].api_key = ConfiguredAgent(a).api_key
            /\ agents[a].client = ConfiguredAgent(a).client

\* C24 (as claimed): with both credentials set, in calls made one after the
\* other on one council, every task sends its first request to the agent's
\* configured model, and every finished task whose first request failed has
\* sent a second one to the backup model registered for the configured
\* model, also when the agent made a backup attempt in the call before.
C24_FallbackStaysAvailable ==
    \A c \in Calls, a \in Experts :
        FullyKeyed =>
            /\ task[c][a].attempts # <<>> =>
                   task[c][a].attempts[1].model = ConfiguredAgent(a).model
            /\ (task[c][a].pc = "done" /\ task[c][a].returns[1].status = "error") =>
                   /\ Len(task[c][a].attempts) = 2
                   /\ task[c][a].attempts[2].model
                          = fallback_map[ConfiguredAgent(a).model].model

Unanswered(c, a) == task[c][a].pc \in {"primary", "fallback"}

\* C26: for as long as a provider request of a run is unanswered, the
\* gather has not completed: there is no report, no decision of the caller,
\* no chairman call, no history entry and nothing handed to the caller,
\* also when every other task has finished.  A request that is never
\* answered therefore keeps them from ever being produced.
C26_NoDeadline ==
    \A a \in Experts :
        Unanswered(1, a) =>
            /\ call[1].phase = "gathering"
            /\ ~report[1].returned
            /\ gate = "pending"
            /\ chairman.calls = 0
            /\ history = <<>>
            /\ delivery = "pending"
            /\ caller = "analysing"

\* C26 witness: every task but one has finished, that one waits for its
\* provider, and there is no report.
C26_Witness ==
    /\ \E a \in Experts :
           /\ Unanswered(1, a)
           /\ \A b \in Experts \ {a} : task[1][b].pc = "done"
    /\ ~report[1].returned

\* The entries of a report, successes first.
ReportEntries(c) == report[c].expert_analyses \o report[c].failed_experts

\* C27 (as claimed): every entry of a report names a producer of the agents
\* table, by its display name or by its key, and no two entries of a report
\* name the same producer.
C27_Identity ==
    \A c \in Calls :
        Reported(c) =>
            /\ \A i \in 1..Len(ReportEntries(c)) :
                   KnownProducer(ReportEntries(c)[i].expert_name)
            /\ \A i, j \in 1..Len(ReportEntries(c)) :
                   i # j => ReportEntries(c)[i].expert_name
                                # ReportEntries(c)[j].expert_name

\* C28: within one call, every step that changes an agent (the switch to
\* the backup model, or the finally block) changes one agent only and
\* leaves the other agents' model, credential and client and the other
\* agents' tasks (their requests, returns and result) as they were.
C28_ProducerIndependence ==
    [][\A a \in Experts :
           agents'[a] # agents[a] =>
               \A b \in Experts \ {a} :
                   /\ agents'[b] = agents[b]
                   /\ task'[1][b] = task[1][b]]_vars

\* C28 witness: one agent has been left on the backup model by its task
\* while another task, started before and answered after, finished with a
\* success of the configured model on its only request.
C28_Witness ==
    \E a, b \in Experts :
        /\ a # b
        /\ FellBack(1, a)
        /\ agents[a].model = Gpt5
        /\ task[1][b].pc = "done"
        /\ Len(task[1][b].attempts) = 1
        /\ is_success(task[1][b].result)
        /\ task[1][b].result.model_used = Claude
        /\ agents[b] = ConfiguredAgent(b)

\* C29: given the same report, the web page and the interactive command
\* line take the same decision, so they ask for the chairman's verdict in
\* the same cases; and either of them, once done with a report, has asked
\* for the verdict exactly when the report holds 3 or more successes, and
\* has put a chairman_report into the report exactly when the verdict's
\* status was success.
C29_CallersAgree ==
    /\ report[1].returned =>
           decide_web(get_expert_analyses(report[1]))
               = decide_interactive(get_expert_analyses(report[1]))
    /\ (entry \in {"web", "interactive"} /\ caller = "done" /\ Reported(1)) =>
           /\ chairman.calls = 1 <=> Len(get_expert_analyses(report[1])) >= 3
           /\ chairman.calls = 1 <=> gate = "Synthesize"
           /\ report[1].chairman_report # Absent <=> chairman.status = "success"

\* C29 witness: the interactive caller is done with a report of three
\* successes into which it put the chairman's report.
C29_Witness ==
    /\ entry = "interactive"
    /\ caller = "done"
    /\ Len(report[1].expert_analyses) = 3
    /\ chairman.status = "success"
    /\ report[1].chairman_report # Absent

\* A call that returned without creating a task: the user declined at the
\* approval prompt.
Declined(c) == call[c].phase = "returned" /\ \A a \in Experts : task[c][a].pc = "none"

\* C30: a call returns without creating tasks exactly when it returns the
\* cancelled report; then no request has been sent, the report counts no
\* expert, no success and no failure and both its lists are empty; and the
\* interactive caller then asks for no verdict, takes no decision, writes
\* nothing to the history file and returns nothing.
C30_DeclinedLaunchesNothing ==
    \A c \in Calls :
        /\ Declined(c) <=> (report[c].returned /\ report[c].system_status = <<"cancelled">>)
        /\ Declined(c) =>
               /\ \A a \in Experts : task[c][a].attempts = <<>>
               /\ \A a \in Experts : agents[a] = ConfiguredAgent(a)
               /\ report[c].total_experts = 0
               /\ report[c].successful_analyses = 0
               /\ report[c].failed_analyses = 0
               /\ report[c].expert_analyses = <<>>
               /\ report[c].failed_experts = <<>>
               /\ (c = 1 /\ entry = "interactive") =>
                      /\ chairman.calls = 0
                      /\ gate = "pending"
                      /\ history = <<>>
                      /\ delivery \in {"pending", "nothing"}

\* C30 witness: the interactive caller has returned after the user
\* declined.
C30_Witness ==
    /\ entry = "interactive"
    /\ Declined(1)
    /\ caller = "done"
    /\ delivery = "nothing"

\* C31 (as claimed): a get_chairman_verdict call that ended with status
\* success holds a non-empty report written by a model, and that report is
\* what the caller put into the analysis result; a chairman request
\* answered with an empty payload never ends in status success.
C31_SuccessHasReport ==
    (chairman.pc = "done" /\ chairman.status = "success") =>
        /\ chairman.chairman_report = "text"
        /\ report[1].chairman_report = "text"
        /\ \A k \in 1..Len(chairman.returns) : chairman.returns[k] # "empty"

\* The credential the sidebar of the web page holds for a model's service.
SidebarKey(model) ==
    IF ServiceOf(model) = "openai" THEN "sidebar_openai" ELSE "sidebar_anthropic"

\* C32 (as claimed): in an analysis started from the web page, every
\* request of every task (primary and backup) and every chairman request
\* is sent with the sidebar's credential of the request's model.
C32_SidebarKeysUsed ==
    entry = "web" =>
        /\ \A a \in Experts : \A k \in 1..Len(task[1][a].attempts) :
               task[1][a].attempts[k].api_key = SidebarKey(task[1][a].attempts[k].model)
        /\ \A k \in 1..Len(chairman.attempts) :
               chairman.attempts[k].api_key = SidebarKey(chairman.attempts[k].model)

====
